---- MODULE Spec2Model ----
(***************************************************************************)
(* Model of src/tailassignment_oop.py: the QAOA tail-assignment cost       *)
(* model, the Hamiltonian-to-circuit translator, the two circuit builders  *)
(* and the statistics extractor.                                           *)
(*                                                                         *)
(* Conventions.                                                            *)
(*  - Python indices are 0-based, TLA+ sequences 1-based: qubit / column r *)
(*    of the source is element r+1 of a row of FR and of CR.  Gate records *)
(*    keep the 0-based qubit number of the source.                         *)
(*  - Rotation angles are carried in units of 1/2 (the field "a2" of a     *)
(*    gate is twice the angle handed to rz / rx), so that the factors 0.5  *)
(*    of the source stay exact in integer arithmetic.                      *)
(*  - Real-valued results (probabilities, expectations) are exact          *)
(*    fractions <<numerator, denominator>>.                                *)
(***************************************************************************)
EXTENDS Integers, Sequences, FiniteSets, TLC

\* ------------------------------------------------------------------ bounds
MaxF == 2
MaxR == 3
MaxCoef == 1
MaxCells == 6
MaxMu == 2
MaxDepth == 2
MaxAngle == 2
MaxExp == 2
MaxCount == 2

VARIABLES
    FR, CR, mu,      \* self.FR, self.CR, self.mu
    depth,           \* self.depth
    usebarrier,      \* self.options['usebarrier']
    backend,         \* self.backend.name().split('_')
    class,           \* the class of the object: which createCircuit is bound
    qc,              \* self.qc: the gates of the circuit, in order of emission
    calls,           \* the methods invoked on self since the circuit was last reset
    input,           \* the argument the caller holds for the next call
    ret              \* the last call made on the object and its outcome

vars == <<FR, CR, mu, depth, usebarrier, backend, class, qc, calls, input, ret>>

config == <<FR, CR, mu, depth, usebarrier, backend, class, input>>

\* ------------------------------------------------------- generic helpers
RECURSIVE SumSeq(_)
SumSeq(s) == IF s = <<>> THEN 0 ELSE Head(s) + SumSeq(Tail(s))

\* numpy "@" of two vectors of equal length
Dot(u, v) == SumSeq([i \in 1..Len(u) |-> u[i] * v[i]])

\* ------------------------------------------------------------ object state
\* self.F, self.R = np.shape(self.FR)
F == Len(FR)
R == Len(FR[1])

\* ---------------------------------------------------------------- cost model
\* int(c) for a character of a bitstring
IntOf(c) == IF c = "1" THEN 1 ELSE 0

\* binstring[::-1]
Reverse(s) == [i \in 1..Len(s) |-> s[Len(s) + 1 - i]]

\* a slip that reads the bitstring in the backend's order (no [::-1])
ToArrayUnreversed(binstring) == [i \in 1..Len(binstring) |-> IntOf(binstring[i])]

\* np.array(list(map(int, binstring[::-1])))
ToArray(binstring) ==
    LET reversed == Reverse(binstring)
    IN  [i \in 1..Len(reversed) |-> IntOf(reversed[i])]

\* self.FR @ x : one dot product per row
MatVec(M, x) == [f \in 1..Len(M) |-> Dot(M[f], x)]

\* a slip that drops the square of the constraint residual
costUnsquared(binstring) ==
    LET x == ToArray(binstring)
        p == MatVec(FR, x)
    IN  0 - ( Dot(CR, x) + mu * SumSeq([f \in 1..F |-> (1 - p[f])]) )

cost(binstring) ==
    LET x == ToArray(binstring)
        p == MatVec(FR, x)
    IN  0 - ( Dot(CR, x) + mu * SumSeq([f \in 1..F |-> (1 - p[f]) * (1 - p[f])]) )

\* np.all(np.sum(self.FR * a, 1) - 1 == 0)
is_solution(binstring) ==
    LET a == ToArray(binstring)
        prod == [f \in 1..F |-> [r \in 1..R |-> FR[f][r] * a[r]]]
    IN  \A f \in 1..F : SumSeq(prod[f]) - 1 = 0

\* ------------------------------------------- Hamiltonian-to-circuit translator
\* FR[:,r] for the 0-based column r
Col(r) == [f \in 1..F |-> FR[f][r+1]]

\* np.sum(self.FR, axis = 1) - 2
RowSumsMinus2 == [f \in 1..F |-> SumSeq(FR[f]) - 2]

Rz(a2, r) == [g |-> "rz", a2 |-> a2, q |-> r, t |-> r]
Cx(r, r_) == [g |-> "cx", a2 |-> 0, q |-> r, t |-> r_]

\* self.qc.rx(angle, self.q_register): one rx per qubit of the register
RxAll(a2) == [i \in 1..R |-> [g |-> "rx", a2 |-> a2, q |-> i - 1, t |-> i - 1]]

\* self.qc.measure(self.q_register, self.c_register)
MeasureAll == [i \in 1..R |-> [g |-> "measure", a2 |-> 0, q |-> i - 1, t |-> i - 1]]

\* self.qc.barrier()
Barrier == << [g |-> "barrier", a2 |-> 0, q |-> 0, t |-> R - 1] >>

\* self.initial_state(self.R): a fresh circuit holding the initial superposition
initial_state(n) == [i \in 1..n |-> [g |-> "h", a2 |-> 0, q |-> i - 1, t |-> i - 1]]

\* self.qc.rx( - 2 * beta, self.q_register )
mix_states(beta) == RxAll(0 - 4 * beta)

\* twice hr = 0.5 * self.CR[r]
costHr2(r) == CR[r+1]

\* twice hr = 0.5 * self.mu * self.FR[:,r] @ (np.sum(self.FR,axis = 1) - 2)
excoHr2(r) == mu * Dot(Col(r), RowSumsMinus2)

\* twice Jrr_ = 0.5 * self.FR[:,r] @ self.FR[:,r_]   (in apply_exco)
excoJ2(r, r_) == Dot(Col(r), Col(r_))

\* the loop "for r_ in range(r+1,self.R)" of apply_exco, from r_ on
RECURSIVE excoCoupling(_, _, _)
excoCoupling(gamma, r, r_) ==
    IF r_ >= R THEN <<>>
    ELSE << Cx(r, r_), Rz(gamma * excoJ2(r, r_), r_), Cx(r, r_) >>
             \o excoCoupling(gamma, r, r_ + 1)

\* the loop "for r in range(self.R)" of apply_exco, from r on
RECURSIVE excoLoop(_, _)
excoLoop(gamma, r) ==
    IF r >= R THEN <<>>
    ELSE << Rz(gamma * excoHr2(r), r) >> \o excoCoupling(gamma, r, r + 1)
             \o excoLoop(gamma, r + 1)

apply_exco(gamma) == excoLoop(gamma, 0)

\* the loop "for r in range(self.R)" of apply_cost
apply_cost(gamma) == [i \in 1..R |-> Rz(gamma * costHr2(i - 1), i - 1)]

\* a slip that takes rowsum(FR) - 1 for rowsum(FR) - 2 in the combined field
hamiltonianHr2Slip(r) ==
    CR[r+1] + mu * Dot(Col(r), [f \in 1..F |-> SumSeq(FR[f]) - 1])

\* twice hr = 0.5 * self.CR[r]
\*            + 0.5 * self.mu * self.FR[:,r] @ (np.sum(self.FR,axis = 1) - 2)
hamiltonianHr2(r) == CR[r+1] + mu * Dot(Col(r), RowSumsMinus2)

\* twice Jrr_ = 0.5 * self.FR[:,r] @ self.FR[:,r_]   (in apply_hamiltonian)
hamiltonianJ2(r, r_) == Dot(Col(r), Col(r_))

\* the loop "for r_ in range(r+1,self.R)" of apply_hamiltonian, from r_ on
RECURSIVE hamiltonianCoupling(_, _, _)
hamiltonianCoupling(gamma, r, r_) ==
    IF r_ >= R THEN <<>>
    ELSE << Cx(r, r_), Rz(gamma * hamiltonianJ2(r, r_), r_), Cx(r, r_) >>
             \o hamiltonianCoupling(gamma, r, r_ + 1)

\* the loop "for r in range(self.R)" of apply_hamiltonian, from r on
RECURSIVE hamiltonianLoop(_, _)
hamiltonianLoop(gamma, r) ==
    IF r >= R THEN <<>>
    ELSE << Rz(gamma * hamiltonianHr2(r), r) >> \o hamiltonianCoupling(gamma, r, r + 1)
             \o hamiltonianLoop(gamma, r + 1)

apply_hamiltonian(gamma) == hamiltonianLoop(gamma, 0)

\* ------------------------------------------------------------ circuit builder
\* "statevector" in self.backend.name().split('_')
IsStatevector == \E i \in 1..Len(backend) : backend[i] = "statevector"

Call(name, angle) == [call |-> name, angle |-> angle]

\* the gates one method call appends to self.qc
Emit(c) ==
    CASE c.call = "initial_state"     -> initial_state(R)
      [] c.call = "apply_hamiltonian" -> apply_hamiltonian(c.angle)
      [] c.call = "apply_cost"        -> apply_cost(c.angle)
      [] c.call = "apply_exco"        -> apply_exco(c.angle)
      [] c.call = "mix_states"        -> mix_states(c.angle)
      [] c.call = "barrier"           -> Barrier
      [] c.call = "measure"           -> MeasureAll

RECURSIVE EmitAll(_)
EmitAll(cs) == IF cs = <<>> THEN <<>> ELSE Emit(Head(cs)) \o EmitAll(Tail(cs))

\* params[start::step] for 0-based start
Slice(params, start, step) ==
    LET n == IF Len(params) > start THEN (Len(params) - start + step - 1) \div step ELSE 0
    IN  [i \in 1..n |-> params[start + (i - 1) * step + 1]]

\* if self.options['usebarrier']: self.qc.barrier()
BarrierCalls == IF usebarrier THEN << Call("barrier", 0) >> ELSE <<>>

\* if "statevector" not in self.backend.name().split('_'): self.qc.measure(...)
MeasureCalls == IF ~IsStatevector THEN << Call("measure", 0) >> ELSE <<>>

\* the body of "for d in range(self.depth)" of QAOATailAssignment.createCircuit,
\* from layer d on; an index past the end of gammas or betas raises IndexError
RECURSIVE standardLayers(_, _, _)
standardLayers(gammas, betas, d) ==
    IF d >= depth THEN [calls |-> <<>>, status |-> "ok"]
    ELSE IF d >= Len(gammas) \/ d >= Len(betas)
         THEN [calls |-> <<>>, status |-> "IndexError"]
         ELSE LET rest == standardLayers(gammas, betas, d + 1)
              IN  [calls |-> << Call("apply_hamiltonian", gammas[d+1]) >>
                               \o BarrierCalls
                               \o << Call("mix_states", betas[d+1]) >>
                               \o BarrierCalls
                               \o rest.calls,
                   status |-> rest.status]

\* a slip that takes the gammas from the odd and the betas from the even places
createCircuitSwapped(params) ==
    LET gammas == Slice(params, 1, 2)
        betas  == Slice(params, 0, 2)
        body   == standardLayers(gammas, betas, 0)
    IN  IF body.status = "ok"
        THEN [calls |-> << Call("initial_state", 0) >> \o body.calls \o MeasureCalls,
              status |-> "ok"]
        ELSE [calls |-> << Call("initial_state", 0) >> \o body.calls,
              status |-> body.status]

\* QAOATailAssignment.createCircuit(params)
createCircuit(params) ==
    LET gammas == Slice(params, 0, 2)
        betas  == Slice(params, 1, 2)
        body   == standardLayers(gammas, betas, 0)
    IN  IF body.status = "ok"
        THEN [calls |-> << Call("initial_state", 0) >> \o body.calls \o MeasureCalls,
              status |-> "ok"]
        ELSE [calls |-> << Call("initial_state", 0) >> \o body.calls,
              status |-> body.status]

\* the body of "for d in range(self.depth)" of TailAssignmentInterlaced.createCircuit
RECURSIVE interlacedLayers(_, _, _, _)
interlacedLayers(gammas, betas, deltas, d) ==
    IF d >= depth THEN [calls |-> <<>>, status |-> "ok"]
    ELSE IF d >= Len(gammas) \/ d >= Len(betas) \/ d >= Len(deltas)
         THEN [calls |-> <<>>, status |-> "IndexError"]
         ELSE LET rest == interlacedLayers(gammas, betas, deltas, d + 1)
              IN  [calls |-> << Call("apply_cost", deltas[d+1]) >>
                               \o BarrierCalls
                               \o << Call("mix_states", betas[d+1]) >>
                               \o BarrierCalls
                               \o << Call("apply_exco", gammas[d+1]) >>
                               \o << Call("mix_states", betas[d+1]) >>
                               \o BarrierCalls
                               \o rest.calls,
                   status |-> rest.status]

\* a slip that hands gamma to the cost step and delta to the constraint step
createCircuitInterlacedSwapped(params) ==
    LET gammas == Slice(params, 2, 3)
        betas  == Slice(params, 1, 3)
        deltas == Slice(params, 0, 3)
        body   == interlacedLayers(gammas, betas, deltas, 0)
    IN  IF body.status = "ok"
        THEN [calls |-> << Call("initial_state", 0) >> \o body.calls \o MeasureCalls,
              status |-> "ok"]
        ELSE [calls |-> << Call("initial_state", 0) >> \o body.calls,
              status |-> body.status]

\* TailAssignmentInterlaced.createCircuit(params)
createCircuitInterlaced(params) ==
    LET gammas == Slice(params, 0, 3)
        betas  == Slice(params, 1, 3)
        deltas == Slice(params, 2, 3)
        body   == interlacedLayers(gammas, betas, deltas, 0)
    IN  IF body.status = "ok"
        THEN [calls |-> << Call("initial_state", 0) >> \o body.calls \o MeasureCalls,
              status |-> "ok"]
        ELSE [calls |-> << Call("initial_state", 0) >> \o body.calls,
              status |-> body.status]

\* -------------------------------------------------------- statistics extractor
\* exact fractions <<numerator, denominator>>
Frac(n, d) == <<n, d>>
FracAdd(x, y) == <<x[1] * y[2] + y[1] * x[2], x[2] * y[2]>>
FracEq(x, y) == x[1] * y[2] = y[1] * x[2]

HexDigits ==
    <<"0", "1", "2", "3", "4", "5", "6", "7", "8", "9", "a", "b", "c", "d", "e", "f">>

\* the value of one hexadecimal digit
DigitValue(c) == CHOOSE v \in 0..15 : HexDigits[v + 1] = c

\* the value of a string of hexadecimal digits
RECURSIVE HexValue(_)
HexValue(ds) ==
    IF ds = <<>> THEN 0
    ELSE 16 * HexValue(SubSeq(ds, 1, Len(ds) - 1)) + DigitValue(ds[Len(ds)])

\* int(hexkey, 0) for a key with the prefix "0x"
ParseInt0(hexkey) == HexValue(SubSeq(hexkey, 3, Len(hexkey)))

\* "{0:b}".format(n)
RECURSIVE FormatBinary(_)
FormatBinary(n) ==
    IF n < 2 THEN << (IF n = 1 THEN "1" ELSE "0") >>
    ELSE Append(FormatBinary(n \div 2), IF n % 2 = 1 THEN "1" ELSE "0")

\* str.zfill(width)
zfill(str, width) ==
    IF Len(str) >= width THEN str
    ELSE [i \in 1..(width - Len(str)) |-> "0"] \o str

RECURSIVE Pow2(_)
Pow2(n) == IF n = 0 THEN 1 ELSE 2 * Pow2(n - 1)

\* self.state_strings: the 2^R bitstrings in the order of the statevector
state_strings == [i \in 1..Pow2(R) |-> zfill(FormatBinary(i - 1), R)]

\* cost_best = - np.inf is the empty tuple, a finite cost_best a 1-tuple
NegInf == <<>>

\* a slip that keeps the cost of the last bitstring seen
maxLast(best, c) == <<c>>

\* max(cost_best, cost)
max(best, c) == IF best = NegInf \/ c > best[1] THEN <<c>> ELSE best

\* the loop "for hexkey in list(counts.keys())" of measurementStatistics, from
\* the k-th key on: the pair of E and cost_best
RECURSIVE statisticsKeys(_, _, _, _)
statisticsKeys(result, k, E, best) ==
    IF k > Len(result.counts) THEN [E |-> E, best |-> best]
    ELSE LET count     == result.counts[k].n
             binstring == zfill(FormatBinary(ParseInt0(result.counts[k].key)), R)
             c         == cost(binstring)
         IN  statisticsKeys(result, k + 1,
                            FracAdd(E, Frac(c * count, result.shots)), max(best, c))

\* the loop "for i, result in enumerate(experiment_results)", from the i-th on
RECURSIVE statisticsResults(_, _, _)
statisticsResults(results, i, best) ==
    IF i > Len(results) THEN [expectations |-> <<>>, best |-> best]
    ELSE LET one  == statisticsKeys(results[i], 1, Frac(0, 1), best)
             rest == statisticsResults(results, i + 1, one.best)
         IN  [expectations |-> << one.E >> \o rest.expectations, best |-> rest.best]

\* np.ceil(p) of the probability p = w / den
Ceil(w, den) == (w + den - 1) \div den

\* QAOATailAssignment.measurementStatistics(job)
measurementStatistics(job) ==
    IF IsStatevector
    THEN LET strs  == state_strings
             costs == [i \in 1..Len(strs) |-> cost(strs[i])]
             E     == Frac(Dot(costs, job.probs), job.den)
             best_sampled_state ==
                 Dot(costs, [i \in 1..Len(strs) |-> Ceil(job.probs[i], job.den)])
         IN  IF Len(job.results) = 0
             THEN [status |-> "IndexError", val |-> <<>>]
             ELSE [status |-> "ok",
                   val |-> [expectations |->
                                [i \in 1..Len(job.results) |->
                                    IF i = 1 THEN E ELSE Frac(0, 1)],
                            variances |-> "None",
                            cost_best |-> max(NegInf, best_sampled_state)]]
    ELSE LET run == statisticsResults(job.results, 1, NegInf)
         IN  [status |-> "ok",
              val |-> [expectations |-> run.expectations,
                       variances |-> "None",
                       cost_best |-> run.best]]

\* QAOATailAssignment.successProbability(job); in the sampled branch the names
\* rN, is_Solution and FR are bound nowhere in the module, so the body of the
\* loop over the keys raises NameError the first time it runs
successProbability(job) ==
    IF IsStatevector
    THEN LET strs == state_strings
             sol  == [i \in 1..Len(strs) |-> IF is_solution(strs[i]) THEN 1 ELSE 0]
         IN  [status |-> "ok", val |-> Frac(Dot(sol, job.probs), job.den)]
    ELSE IF \E i \in 1..Len(job.results) : Len(job.results[i].counts) > 0
         THEN [status |-> "NameError", val |-> <<>>]
         ELSE [status |-> "ok", val |-> Frac(0, 1)]

\* ------------------------------------------------------------------ inputs
Bits == {"0", "1"}
BitStrings(n) == [1..n -> Bits]

\* F x R matrices of 0/1 entries with at most MaxCells entries
Dims == {d \in (1..MaxF) \X (1..MaxR) : d[1] * d[2] <= MaxCells}
Matrices == UNION {[1..d[1] -> [1..d[2] -> 0..1]] : d \in Dims}

Backends == { <<"qasm", "simulator">>, <<"statevector", "simulator">> }
Classes == {"QAOATailAssignment", "TailAssignmentInterlaced"}
Angles == 1..MaxAngle

NoRet == [op |-> "none"]

\* ------------------------------------------------- specification SpecCost
InitCost ==
    /\ FR \in Matrices
    /\ CR \in [1..Len(FR[1]) -> 0..MaxCoef]
    /\ mu \in 1..MaxMu
    /\ depth = 1
    /\ usebarrier = FALSE
    /\ backend = <<"qasm", "simulator">>
    /\ class = "QAOATailAssignment"
    /\ qc = <<>>
    /\ calls = <<>>
    /\ input \in BitStrings(Len(FR[1]))
    /\ ret = NoRet

Cost ==
    /\ ret' = [op |-> "cost", arg |-> input, val |-> cost(input)]
    /\ UNCHANGED <<config, qc, calls>>

IsSolution ==
    /\ ret' = [op |-> "is_solution", arg |-> input, val |-> is_solution(input)]
    /\ UNCHANGED <<config, qc, calls>>

NextCost == Cost \/ IsSolution

SpecCost == InitCost /\ [][NextCost]_vars

\* ---------------------------------------------- specification SpecCircuit
\* parameter arrays of pairwise distinct angles, of every length up to one
\* past the longest a builder reads
MaxLen == 3 * MaxDepth + 1
ParamArrays == {[i \in 1..n |-> a0 + (i - 1)] : n \in 0..MaxLen, a0 \in Angles}

InitCircuit ==
    /\ FR \in Matrices
    /\ CR = [r \in 1..Len(FR[1]) |-> r]
    /\ mu = 1
    /\ depth \in 0..MaxDepth
    /\ usebarrier \in BOOLEAN
    /\ backend \in Backends
    /\ class \in Classes
    /\ qc = <<>>
    /\ calls = <<>>
    /\ input \in ParamArrays
    /\ ret = NoRet

CreateCircuit ==
    /\ class = "QAOATailAssignment"
    /\ LET run == createCircuit(input)
       IN  /\ calls' = run.calls
           /\ qc' = EmitAll(run.calls)
           /\ ret' = [op |-> "createCircuit", arg |-> input, status |-> run.status]
    /\ UNCHANGED config

CreateCircuitInterlaced ==
    /\ class = "TailAssignmentInterlaced"
    /\ LET run == createCircuitInterlaced(input)
       IN  /\ calls' = run.calls
           /\ qc' = EmitAll(run.calls)
           /\ ret' = [op |-> "createCircuit", arg |-> input, status |-> run.status]
    /\ UNCHANGED config

NextCircuit == CreateCircuit \/ CreateCircuitInterlaced

SpecCircuit == InitCircuit /\ [][NextCircuit]_vars

\* ------------------------------------------------ specification SpecGates
\* the two code paths of the Hamiltonian layer (createCircuit, lines 138-143):
\* apply_hamiltonian(gamma), or apply_cost(gamma) followed by apply_exco(gamma),
\* each on a freshly initialised circuit, with the largest angle of the bounds
InitGates ==
    /\ FR \in Matrices
    /\ CR \in [1..Len(FR[1]) -> 0..MaxCoef]
    /\ mu \in 1..MaxMu
    /\ depth = 1
    /\ usebarrier = FALSE
    /\ backend = <<"qasm", "simulator">>
    /\ class = "QAOATailAssignment"
    /\ qc = <<>>
    /\ calls = <<>>
    /\ input = MaxAngle
    /\ ret = NoRet

Direct(name) ==
    /\ calls' = Append(calls, Call(name, input))
    /\ qc' = qc \o Emit(Call(name, input))
    /\ ret' = [op |-> name, arg |-> input, emitted |-> Emit(Call(name, input))]
    /\ UNCHANGED config

InitialState ==
    /\ calls' = << Call("initial_state", 0) >>
    /\ qc' = initial_state(R)
    /\ ret' = [op |-> "initial_state", arg |-> R, emitted |-> initial_state(R)]
    /\ UNCHANGED config

ApplyHamiltonian ==
    /\ calls = << Call("initial_state", 0) >>
    /\ Direct("apply_hamiltonian")

ApplyCost ==
    /\ calls = << Call("initial_state", 0) >>
    /\ Direct("apply_cost")

ApplyExco ==
    /\ calls = << Call("initial_state", 0), Call("apply_cost", input) >>
    /\ Direct("apply_exco")

NextGates == InitialState \/ ApplyHamiltonian \/ ApplyCost \/ ApplyExco

SpecGates == InitGates /\ [][NextGates]_vars

\* ------------------------------------------------ specification SpecStats
\* the key of the bitstring with the number k, as the backend writes it
RECURSIVE HexDigitsOf(_)
HexDigitsOf(k) ==
    IF k < 16 THEN << HexDigits[k + 1] >>
    ELSE Append(HexDigitsOf(k \div 16), HexDigits[(k % 16) + 1])
HexKey(k) == <<"0", "x">> \o HexDigitsOf(k)

\* the i-th experiment of a sampled job: c shots of bitstring k, if any, then
\* i-1 shots of the complement of k, if any
Experiment(i, k, c, n) ==
    [shots  |-> c + (i - 1),
     counts |-> (IF c > 0 THEN << [key |-> HexKey(k), n |-> c] >> ELSE <<>>)
                \o (IF i > 1 THEN << [key |-> HexKey(n - 1 - k), n |-> i - 1] >>
                             ELSE <<>>)]

\* sampled jobs: up to MaxExp experiments over one bitstring (MaxCount shots of
\* it, or none) and its complement
SampledJobs(n) ==
    {[results |-> [i \in 1..e |-> Experiment(i, k, c, n)], probs |-> <<>>, den |-> 1] :
        e \in 0..MaxExp, k \in 0..(n - 1), c \in {0, MaxCount}}

\* exact jobs: one result, probability c/MaxCount on the state k and the rest on
\* its complement
ExactJobs(n) ==
    {[results |-> << [shots |-> 1, counts |-> <<>>] >>,
      probs   |-> [i \in 1..n |-> IF i - 1 = k THEN c
                                  ELSE IF i - 1 = n - 1 - k THEN MaxCount - c ELSE 0],
      den     |-> MaxCount] :
        k \in 0..(n - 1), c \in 0..MaxCount}

InitStats ==
    /\ FR \in Matrices
    /\ CR = [r \in 1..Len(FR[1]) |-> r]
    /\ mu = 1
    /\ depth = 1
    /\ usebarrier = FALSE
    /\ backend \in Backends
    /\ class = "QAOATailAssignment"
    /\ qc = <<>>
    /\ calls = <<>>
    /\ input \in (IF "statevector" \in {backend[i] : i \in 1..Len(backend)}
                  THEN ExactJobs(Pow2(Len(FR[1])))
                  ELSE SampledJobs(Pow2(Len(FR[1]))))
    /\ ret = NoRet

MeasurementStatistics ==
    /\ LET run == measurementStatistics(input)
       IN  ret' = [op |-> "measurementStatistics", status |-> run.status, val |-> run.val]
    /\ UNCHANGED <<config, qc, calls>>

SuccessProbability ==
    /\ LET run == successProbability(input)
       IN  ret' = [op |-> "successProbability", status |-> run.status, val |-> run.val]
    /\ UNCHANGED <<config, qc, calls>>

NextStats == MeasurementStatistics \/ SuccessProbability

SpecStats == InitStats /\ [][NextStats]_vars

\* ---------------------------------------------------- properties: cost model
\* sum of a function's values over a finite subset of its domain
RECURSIVE SumOver(_, _)
SumOver(S, g) ==
    IF S = {} THEN 0
    ELSE LET e == CHOOSE e \in S : TRUE IN g[e] + SumOver(S \ {e}, g)

\* x[r] = int(b[R-1-r]) for the 0-based resource r
Selected(b, r) == IF b[R - r] = "1" THEN 1 ELSE 0

\* every row of FR covers exactly one selected resource
ExactCover(b) ==
    \A f \in 1..F :
        SumOver(0..(R-1), [r \in 0..(R-1) |-> FR[f][r+1] * Selected(b, r)]) = 1

Identity2 == << <<1, 0>>, <<0, 1>> >>

\* C1: is_solution(b) is true iff every row of FR, summed over the resources
\* selected by the bit-reversed string x[r] = int(b[R-1-r]), equals exactly 1;
\* for FR = [[1,0],[0,1]] is_solution("11") is true; the call changes no state.
C1_IsSolutionIsExactCover ==
    /\ [](ret.op = "is_solution" =>
            /\ ret.val = ExactCover(ret.arg)
            /\ (FR = Identity2 /\ ret.arg = <<"1", "1">>) => ret.val = TRUE)
    /\ [][ret'.op = "is_solution" => UNCHANGED <<config, qc, calls>>]_vars

\* a solution whose bitstring read in the backend's order is no solution
C1_Witness ==
    /\ ret.op = "is_solution"
    /\ ret.val = TRUE
    /\ ~ExactCover(Reverse(ret.arg))

\* -( CR.x + mu * sum_f (1 - FR[f].x)^2 ) with x the reversed bits of b
NegPenalisedCost(b) ==
    LET lin == SumOver(0..(R-1), [r \in 0..(R-1) |-> CR[r+1] * Selected(b, r)])
        res == [f \in 1..F |->
                  1 - SumOver(0..(R-1), [r \in 0..(R-1) |-> FR[f][r+1] * Selected(b, r)])]
    IN  0 - (lin + mu * SumOver(1..F, [f \in 1..F |-> res[f] * res[f]]))

\* C2: cost(b) = -( sum_r CR[r]*x[r] + mu * sum_f (1 - sum_r FR[f,r]*x[r])^2 )
\* with x[r] = int(b[R-1-r]); for FR = [[1,0],[0,1]], CR = [1,1], mu = 1,
\* cost("11") = -2.
C2_CostFormula ==
    ret.op = "cost" =>
        /\ ret.val = NegPenalisedCost(ret.arg)
        /\ (FR = Identity2 /\ CR = <<1, 1>> /\ mu = 1 /\ ret.arg = <<"1", "1">>)
              => ret.val = 0 - 2

\* a cost that depends on the bit order, with a row covered twice and mu > 1
C2_Witness ==
    /\ ret.op = "cost"
    /\ mu > 1
    /\ \E f \in 1..F : Dot(FR[f], ToArray(ret.arg)) = 2
    /\ ret.val # NegPenalisedCost(Reverse(ret.arg))

\* ------------------------------------------------ properties: circuit builder
\* the execution mode is exact when the backend's name has the word statevector
Exact == "statevector" \in {backend[i] : i \in 1..Len(backend)}

\* the number of calls of the given method among the recorded calls
Count(name) == Cardinality({i \in 1..Len(calls) : calls[i].call = name})

\* C4: standard createCircuit(params) with len(params) = 2*depth emits, after the
\* initial state, for each layer d = 0..depth-1 in increasing order exactly one
\* combined-Hamiltonian application with angle params[2d], then exactly one mixer
\* application with angle params[2d+1]; apply_cost and apply_exco are never
\* called; the measurement is appended once, after the last layer, iff the mode
\* is sampled; barriers appear only after the Hamiltonian and after the mixer of
\* a layer, when usebarrier is set.
C4_StandardLayers ==
    (ret.op = "createCircuit" /\ class = "QAOATailAssignment"
                              /\ Len(ret.arg) = 2 * depth) =>
        LET p == ret.arg
            w == IF usebarrier THEN 4 ELSE 2
        IN  /\ ret.status = "ok"
            /\ Len(calls) = 1 + depth * w + (IF Exact THEN 0 ELSE 1)
            /\ calls[1] = Call("initial_state", 0)
            /\ \A d \in 0..(depth - 1) :
                 LET b == 1 + d * w
                 IN  /\ calls[b + 1] = Call("apply_hamiltonian", p[2 * d + 1])
                     /\ calls[b + w \div 2 + 1] = Call("mix_states", p[2 * d + 2])
                     /\ usebarrier => /\ calls[b + 2] = Call("barrier", 0)
                                      /\ calls[b + 4] = Call("barrier", 0)
            /\ ~Exact => calls[Len(calls)] = Call("measure", 0)
            /\ Count("apply_cost") = 0 /\ Count("apply_exco") = 0
            /\ Count("measure") = (IF Exact THEN 0 ELSE 1)
            /\ qc = EmitAll(calls)

\* a sampled two-layer standard circuit with barriers
C4_Witness ==
    /\ ret.op = "createCircuit" /\ class = "QAOATailAssignment"
    /\ depth = 2 /\ Len(ret.arg) = 4 /\ usebarrier /\ ~Exact
    /\ ret.status = "ok"
    /\ Count("apply_hamiltonian") = 2 /\ Count("measure") = 1

\* C5: interlaced createCircuit(params) with len(params) = 3*depth emits, for each
\* layer d in increasing order, cost-only with delta = params[3d+2], mixer with
\* beta = params[3d+1], constraint-only with gamma = params[3d], mixer again with
\* the same beta; the combined Hamiltonian is never applied; the measurement is
\* appended exactly once iff the mode is not exact.
C5_InterlacedLayers ==
    (ret.op = "createCircuit" /\ class = "TailAssignmentInterlaced"
                              /\ Len(ret.arg) = 3 * depth) =>
        LET p == ret.arg
            steps == SelectSeq(calls, LAMBDA c : c.call # "barrier")
        IN  /\ ret.status = "ok"
            /\ Len(steps) = 1 + 4 * depth + (IF Exact THEN 0 ELSE 1)
            /\ steps[1] = Call("initial_state", 0)
            /\ \A d \in 0..(depth - 1) :
                 LET b == 1 + 4 * d
                 IN  /\ steps[b + 1] = Call("apply_cost", p[3 * d + 3])
                     /\ steps[b + 2] = Call("mix_states", p[3 * d + 2])
                     /\ steps[b + 3] = Call("apply_exco", p[3 * d + 1])
                     /\ steps[b + 4] = Call("mix_states", p[3 * d + 2])
            /\ ~Exact => calls[Len(calls)] = Call("measure", 0)
            /\ Count("apply_hamiltonian") = 0
            /\ Count("measure") = (IF Exact THEN 0 ELSE 1)
            /\ qc = EmitAll(calls)

\* a two-layer interlaced circuit in exact mode: eight sub-steps, no measurement
C5_Witness ==
    /\ ret.op = "createCircuit" /\ class = "TailAssignmentInterlaced"
    /\ depth = 2 /\ Len(ret.arg) = 6 /\ Exact
    /\ ret.status = "ok"
    /\ Count("apply_cost") = 2 /\ Count("apply_exco") = 2
    /\ Count("mix_states") = 4 /\ Count("measure") = 0

\* the number of angles a layer of the bound builder consumes
AnglesPerLayer == IF class = "TailAssignmentInterlaced" THEN 3 ELSE 2

\* C6: createCircuit fails with an error, and returns no circuit, whenever
\* len(params) differs from k*depth (k = 2 standard, k = 3 interlaced), both when
\* params is too short and when it is too long.
C6_LengthMismatchFails ==
    (ret.op = "createCircuit" /\ Len(ret.arg) # AnglesPerLayer * depth) =>
        ret.status # "ok"

\* ---------------------------------------------------- properties: translator
\* the places of a gate sequence that hold the rotation of a coupling: an rz on
\* the target of one and the same cx before and after it
CouplingPlaces(gs) ==
    {i \in 2..(Len(gs) - 1) :
        /\ gs[i].g = "rz" /\ gs[i-1].g = "cx"
        /\ gs[i+1] = gs[i-1] /\ gs[i-1].t = gs[i].q}

\* the places that hold a local-field rotation: every other rz
LocalPlaces(gs) == {i \in 1..Len(gs) : gs[i].g = "rz"} \ CouplingPlaces(gs)

\* the subsequence of gs at the places in P, in order
Restrict(gs, P) ==
    [k \in 1..Cardinality(P) |->
        gs[CHOOSE i \in P : Cardinality({j \in P : j < i}) = k - 1]]

LocalFields(gs) == Restrict(gs, LocalPlaces(gs))
Couplings(gs) == Restrict(gs, (1..Len(gs)) \ LocalPlaces(gs))

\* the unordered pairs of qubits, each once, as r < r_, in the order of the
\* upper triangle read row by row
Pairs == {p \in (0..(R-1)) \X (0..(R-1)) : p[1] < p[2]}
Before(p, q) == p[1] < q[1] \/ (p[1] = q[1] /\ p[2] < q[2])
PairAt(k) == CHOOSE p \in Pairs : Cardinality({q \in Pairs : Before(q, p)}) = k - 1

\* FR[:,r] . FR[:,r_]
ColDot(r, r_) == SumOver(1..F, [f \in 1..F |-> FR[f][r+1] * FR[f][r_+1]])

\* FR[:,r] . (rowsum(FR) - 2)
ColField(r) ==
    SumOver(1..F, [f \in 1..F |->
        FR[f][r+1] * (SumOver(1..R, [c \in 1..R |-> FR[f][c]]) - 2)])

\* cx(r,r_), rz(angle*0.5*FR[:,r].FR[:,r_]) on r_, cx(r,r_) for each pair in order
UpperTriangle(angle) ==
    [j \in 1..(3 * Cardinality(Pairs)) |->
        LET p == PairAt((j - 1) \div 3 + 1)
        IN  IF (j - 1) % 3 = 1
            THEN [g |-> "rz", a2 |-> angle * ColDot(p[1], p[2]), q |-> p[2], t |-> p[2]]
            ELSE [g |-> "cx", a2 |-> 0, q |-> p[1], t |-> p[2]]]

\* C10: apply_hamiltonian(angle) is equivalent to apply_cost(angle) followed by
\* apply_exco(angle): for every qubit r its single local-field rotation,
\* angle*(0.5*CR[r] + 0.5*mu*FR[:,r].(rowsum(FR)-2)), is the sum of the two
\* local-field rotations of apply_cost and apply_exco on r, and both paths emit
\* the same coupling sequence: for each pair r < r_ of the upper triangle, once,
\* cx(r,r_), rz(angle*0.5*FR[:,r].FR[:,r_]) on r_, cx(r,r_); the coupling value
\* is symmetric in (r, r_).
C10_HamiltonianIsCostPlusExco ==
    /\ (ret.op = "apply_hamiltonian") =>
        LET h == ret.emitted
            c == apply_cost(ret.arg)
            e == apply_exco(ret.arg)
            hl == LocalFields(h)
            el == LocalFields(e)
        IN  /\ Len(hl) = R /\ Len(el) = R /\ Len(c) = R
            /\ \A r \in 0..(R-1) :
                 /\ hl[r+1].q = r /\ el[r+1].q = r /\ c[r+1].q = r
                 /\ hl[r+1].a2 = ret.arg * (CR[r+1] + mu * ColField(r))
                 /\ hl[r+1].a2 = c[r+1].a2 + el[r+1].a2
            /\ Couplings(h) = UpperTriangle(ret.arg)
            /\ Couplings(e) = UpperTriangle(ret.arg)
            /\ SubSeq(qc, R + 1, Len(qc)) = h
            /\ \A r, r_ \in 0..(R-1) :
                 /\ hamiltonianJ2(r, r_) = hamiltonianJ2(r_, r)
                 /\ excoJ2(r, r_) = excoJ2(r_, r)
    /\ (ret.op = "apply_exco") =>
        LET two == SubSeq(qc, R + 1, Len(qc))
            h   == apply_hamiltonian(ret.arg)
        IN  /\ Couplings(two) = Couplings(h)
            /\ \A r \in 0..(R-1) :
                 LET P == {i \in LocalPlaces(two) : two[i].q = r}
                 IN  /\ Cardinality(P) = 2
                     /\ SumOver(P, [i \in P |-> two[i].a2]) = LocalFields(h)[r+1].a2

\* apply_hamiltonian on three qubits with non-zero cost, field and couplings
C10_Witness ==
    /\ ret.op = "apply_hamiltonian"
    /\ R = 3
    /\ \A r \in 0..(R-1) : CR[r+1] # 0 /\ ColField(r) # 0
    /\ \A p \in Pairs : ColDot(p[1], p[2]) # 0
    /\ Len(ret.emitted) = R + 3 * 3

\* ------------------------------------------- properties: statistics extractor
\* the number a key of the counts mapping writes
KeyNumber(hexkey) == CHOOSE k \in 0..(Pow2(R) - 1) : HexKey(k) = hexkey

\* the binary string of k, zero-padded to length R, most significant bit first
Padded(k) == [j \in 1..R |-> IF (k \div Pow2(R - j)) % 2 = 1 THEN "1" ELSE "0"]

\* the bitstrings measured in the i-th experiment, and in any experiment
MeasuredIn(i) ==
    {Padded(KeyNumber(input.results[i].counts[j].key)) :
        j \in 1..Len(input.results[i].counts)}
Measured == UNION {MeasuredIn(i) : i \in 1..Len(input.results)}

\* count_i(b): the shots of the i-th experiment that measured b
CountOf(i, b) ==
    LET cs == input.results[i].counts
    IN  SumOver({j \in 1..Len(cs) : Padded(KeyNumber(cs[j].key)) = b},
                [j \in 1..Len(cs) |-> cs[j].n])

\* sum_b cost(b) * count_i(b) over the bitstrings measured in experiment i
WeightedCost(i) ==
    SumOver(MeasuredIn(i), [b \in MeasuredIn(i) |-> NegPenalisedCost(b) * CountOf(i, b)])

\* C7: in sampled mode measurementStatistics returns (expectations, None,
\* cost_best): one expectation per experiment result, entry i the shot-weighted
\* average sum_b cost(b)*count_i(b)/shots_i over the bitstrings measured in
\* experiment i (keys decoded to binary strings zero-padded to length R),
\* cost_best the maximum of cost(b) over all bitstrings measured in any
\* experiment, and the variance component None.
C7_SampledStatistics ==
    (ret.op = "measurementStatistics" /\ ~Exact) =>
        /\ ret.status = "ok"
        /\ Len(ret.val.expectations) = Len(input.results)
        /\ \A i \in 1..Len(input.results) :
             IF MeasuredIn(i) = {}
             THEN FracEq(ret.val.expectations[i], <<0, 1>>)
             ELSE FracEq(ret.val.expectations[i],
                         <<WeightedCost(i), input.results[i].shots>>)
        /\ ret.val.variances = "None"
        /\ Measured # {} =>
             /\ Len(ret.val.cost_best) = 1
             /\ \E b \in Measured : ret.val.cost_best[1] = NegPenalisedCost(b)
             /\ \A b \in Measured : ret.val.cost_best[1] >= NegPenalisedCost(b)

\* two experiments, the second with two bitstrings of different cost and count,
\* and the best cost not that of the last bitstring read
C7_Witness ==
    /\ ret.op = "measurementStatistics" /\ ~Exact
    /\ Len(input.results) = 2
    /\ Cardinality(MeasuredIn(2)) = 2
    /\ \E b \in MeasuredIn(2) : CountOf(2, b) = 1
    /\ \E b \in MeasuredIn(2) : CountOf(2, b) = 2
    /\ LET cs == input.results[2].counts
       IN  ret.val.cost_best[1] > NegPenalisedCost(Padded(KeyNumber(cs[2].key)))
    /\ ret.val.expectations[1] # ret.val.expectations[2]

\* the states of the exact job with non-zero probability
Support == {i \in 1..Len(input.probs) : input.probs[i] > 0}

\* C8: in exact mode the cost_best of measurementStatistics is the true maximum
\* of cost(s) over the states s of non-zero probability, also when more than
\* one state has non-zero probability.
C8_ExactBestIsMaximum ==
    (ret.op = "measurementStatistics" /\ Exact /\ ret.status = "ok") =>
        /\ Len(ret.val.cost_best) = 1
        /\ \E i \in Support : ret.val.cost_best[1] = NegPenalisedCost(Padded(i - 1))
        /\ \A i \in Support : ret.val.cost_best[1] >= NegPenalisedCost(Padded(i - 1))

\* the shots of a sampled job, and those of them that measured a solution
TotalShots ==
    SumOver(1..Len(input.results),
            [i \in 1..Len(input.results) |-> input.results[i].shots])
SolutionShots ==
    SumOver(1..Len(input.results),
            [i \in 1..Len(input.results) |->
                SumOver({b \in MeasuredIn(i) : ExactCover(b)},
                        [b \in MeasuredIn(i) |-> CountOf(i, b)])])

\* C3: in sampled mode successProbability(job) completes with a value, the
\* fraction of the shots whose measured bitstring satisfies is_solution for
\* this object's FR: (sum of the counts of the solutions) / (total shots).
C3_SampledSuccessProbability ==
    (ret.op = "successProbability" /\ ~Exact /\ TotalShots > 0) =>
        /\ ret.status = "ok"
        /\ FracEq(ret.val, <<SolutionShots, TotalShots>>)

\* the sampled job carries no data: no experiment, or one with empty counts
NoData ==
    \/ Len(input.results) = 0
    \/ \E i \in 1..Len(input.results) : Len(input.results[i].counts) = 0

\* C9: when the result carries no data for the selected mode (sampled mode with
\* an experiment whose counts are empty, or with no experiment at all), the
\* statistics extractor fails with an error and never returns zero or default
\* statistics.
C9_NoDataFails ==
    (ret.op \in {"measurementStatistics", "successProbability"} /\ ~Exact /\ NoData) =>
        ret.status # "ok"

====
